---- MODULE Spec2Model ----
(***************************************************************************)
(* Authentication subsystem of the to-do list application: registration    *)
(* (REST route and tRPC procedure), e-mail verification page, credentials  *)
(* login (authorize + signIn callback + login page), check-email route.    *)
(* Each request is a process whose steps are separated at its awaited      *)
(* store / transport calls; the user table is the only shared state.       *)
(***************************************************************************)
EXTENDS Integers, Sequences, FiniteSets, TLC

\* ---------------------------------------------------------------- bounds
MaxReq == 4        \* requests started in one behaviour
MaxTime == 2       \* largest value of the wall clock
MaxCalls == 4      \* task procedure calls started in one behaviour

\* ------------------------------------------------------ program constants
SaltRounds == 10   \* bcrypt.hash(password, 10)
MinPasswordLen == 6

\* ------------------------------------------------------------- value space
NULL == 0 - 1                      \* a null column / null reference
EmptyToken == 0                    \* the empty path segment "" (falsy)
NoPassword == <<>>                 \* password column holding null

EmailA == <<"a", "@", "x", ".", "i", "o">>
EmailB == <<"b", "@", "x", ".", "i", "o">>
EmailBad == <<"a", "b">>           \* truthy string that is no e-mail address
Emails == {EmailA, EmailB}

PwStrong == <<"A", "b", "c", "d", "1", "!">>   \* passes both password policies
PwWeak == <<"a", "b", "c", "d", "e", "f">>     \* passes the length check only
PwShort == <<"a", "1">>                        \* fails the length check
Passwords == {PwStrong, PwWeak}

UpperChars == {"A"}
DigitChars == {"1"}
SymbolChars == {"!", "@", "."}
LetterChars == {"a", "b", "c", "d", "e", "f", "i", "o", "x", "A"}

VARIABLES users, mail, reqs, sessions, nextToken, now, logs,
          tasks, calls, cookie

vars == <<users, mail, reqs, sessions, nextToken, now, logs,
          tasks, calls, cookie>>

\* ------------------------------------------------------------ pure helpers

\* bcrypt.hash(password, rounds): a salted one-way digest that records its cost.
BcryptHash(password, rounds) ==
  <<"$2b$", IF rounds = SaltRounds THEN "10" ELSE "??">> \o password

\* bcrypt.compare(password, hash): re-hash with the cost read from the hash.
BcryptCompare(password, hash) ==
  /\ Len(hash) >= 2
  /\ hash[1] = "$2b$"
  /\ SubSeq(hash, 3, Len(hash)) = password

\* email.split('@')[0]: the text before the first '@' (the whole string if none).
RECURSIVE SplitAtFirst(_)
SplitAtFirst(s) ==
  IF s = <<>> \/ Head(s) = "@" THEN <<>>
  ELSE <<Head(s)>> \o SplitAtFirst(Tail(s))

\* z.string().email(): one '@', a non-empty local part, a dotted domain whose
\* last label has at least two letters.
ZodEmail(s) ==
  LET local == SplitAtFirst(s)
      rest == IF Len(local) < Len(s) THEN SubSeq(s, Len(local) + 2, Len(s)) ELSE <<>>
      dots == {i \in 1..Len(rest) : rest[i] = "."}
  IN /\ Len(local) > 0
     /\ Len(local) < Len(s)
     /\ \A i \in 1..Len(rest) : rest[i] # "@"
     /\ dots # {}
     /\ \E d \in dots :
          /\ d > 1
          /\ \A e \in dots : e <= d
          /\ Len(rest) - d >= 2
          /\ \A i \in (d + 1)..Len(rest) : rest[i] \in LetterChars

\* The strict password policy of the tRPC procedure: min(6) and the regex with
\* the three look-aheads (upper-case letter, digit, symbol).
ZodPassword(p) ==
  /\ Len(p) >= MinPasswordLen
  /\ \E i \in 1..Len(p) : p[i] \in UpperChars
  /\ \E i \in 1..Len(p) : p[i] \in DigitChars
  /\ \E i \in 1..Len(p) : p[i] \in SymbolChars

\* The guard of the REST route: !email || !password || ... || password.length < 6
RestInputInvalid(email, password) ==
  \/ email = <<>>
  \/ password = <<>>
  \/ Len(password) < MinPasswordLen

\* ---------------------------------------------------------------- the store

\* Mutant: the lookup sees verified rows only.
FindUniqueVerifiedByEmail(us, email) ==
  LET hit == {i \in 1..Len(us) : us[i].email = email /\ us[i].emailVerified # NULL}
  IN IF hit = {} THEN <<>> ELSE <<us[CHOOSE i \in hit : \A j \in hit : i <= j]>>

\* db.user.findUnique({ where: { email } }): <<>> (null) or <<record>>.
FindUniqueByEmail(us, email) ==
  LET hit == {i \in 1..Len(us) : us[i].email = email}
  IN IF hit = {} THEN <<>> ELSE <<us[CHOOSE i \in hit : \A j \in hit : i <= j]>>

\* db.user.findUnique({ where: { id } })
FindUniqueById(us, id) ==
  IF id \in 1..Len(us) THEN <<us[id]>> ELSE <<>>

\* Mutant: the where clause is lost (a filter value of undefined matches every
\* row), so the first row is returned whatever the token.
FindFirstAny(us, token) ==
  IF us = <<>> THEN <<>> ELSE <<us[1]>>

\* db.user.findFirst({ where: { verificationToken: token } })
FindFirstByToken(us, token) ==
  LET hit == {i \in 1..Len(us) : us[i].verificationToken = token}
  IN IF hit = {} THEN <<>> ELSE <<us[CHOOSE i \in hit : \A j \in hit : i <= j]>>

\* Mutant: the e-mail column carries no unique index.
NoUniqueIndex(us, email) == FALSE

\* The unique index on User.email: an insert of a second row with the same
\* e-mail is rejected by the store.
EmailTaken(us, email) ==
  \E i \in 1..Len(us) : us[i].email = email

\* Mutant: registration writes the row as already verified.
NewUserRowVerified(id, email, hashedPassword, token) ==
  [id |-> id, email |-> email, password |-> hashedPassword,
   name |-> SplitAtFirst(email), emailVerified |-> 1,
   verificationToken |-> token]

\* The row written by db.user.create({ data: { email, password, name,
\* verificationToken } }); emailVerified keeps its column default, null.
NewUserRow(id, email, hashedPassword, token) ==
  [id |-> id, email |-> email, password |-> hashedPassword,
   name |-> SplitAtFirst(email), emailVerified |-> NULL,
   verificationToken |-> token]

\* Mutant: the update sets emailVerified and leaves the token in place.
VerifiedRowKeepsToken(row, date) ==
  [row EXCEPT !.emailVerified = date]

\* db.user.update({ where: { id }, data: { emailVerified: new Date(),
\* verificationToken: null } })
VerifiedRow(row, date) ==
  [row EXCEPT !.emailVerified = date, !.verificationToken = NULL]

\* ------------------------------------------------------------------ requests

NoOut == [status |-> "", msg |-> ""]

NewReq(kind, pc, email, password, token) ==
  [kind |-> kind, pc |-> pc, email |-> email, password |-> password,
   token |-> token, user |-> <<>>, out |-> NoOut, error |-> "",
   compared |-> FALSE, claims |-> <<>>, session |-> <<>>, handled |-> FALSE]

Finish(r, status, msg) ==
  [r EXCEPT !.pc = "done", !.out = [status |-> status, msg |-> msg]]

\* One line of the server console: what was written and the objects dumped
\* with it (the token claims and the user object, each present or absent).
LogLine(line, what, token, user) ==
  [line |-> line, what |-> what, token |-> token, user |-> user]

Init ==
  /\ users = <<>>
  /\ mail = {}
  /\ reqs = <<>>
  /\ sessions = {}
  /\ nextToken = 1
  /\ now = 1
  /\ logs = {}
  /\ tasks = {}
  /\ calls = <<>>
  /\ cookie = <<>>

\* Time passes between requests and between the steps of a request.
Tick ==
  /\ now < MaxTime
  /\ now' = now + 1
  /\ UNCHANGED <<users, mail, reqs, sessions, nextToken, logs, tasks, calls, cookie>>

\* ------------------------------------------------------------ registration
\* POST /api/register (REST route) and authRouter.register (tRPC procedure).
\* Steps: input validation, findUnique, create, sendVerificationEmail.

IsRegister(r) == r.kind \in {"registerRest", "registerTrpc"}

\* Outcome of each exit of the two handlers.
RegisterInvalidOut(kind) ==
  IF kind = "registerRest"
  THEN [status |-> "400", msg |-> "Invalid input. Password must be at least 6 characters."]
  ELSE [status |-> "BAD_REQUEST", msg |-> "zodError"]

RegisterConflictOut(kind) ==
  IF kind = "registerRest"
  THEN [status |-> "409", msg |-> "Email already in use"]
  ELSE [status |-> "INTERNAL_SERVER_ERROR", msg |-> "Email already in use"]

\* A rejected promise of the store or the mail transport: the REST route's catch
\* block answers 500; the tRPC procedure lets the error propagate.
RegisterThrownOut(kind, what) ==
  IF kind = "registerRest"
  THEN [status |-> "500", msg |-> "An unexpected error occurred."]
  ELSE [status |-> "INTERNAL_SERVER_ERROR", msg |-> what]

\* catch (error) { console.error("REGISTRATION_ERROR", error); ... } in the
\* REST route; the tRPC procedure has no catch and writes nothing.
RegisterThrownLog(kind, what) ==
  IF kind = "registerRest"
  THEN {LogLine("REGISTRATION_ERROR", what, <<>>, <<>>)}
  ELSE {}

RegisterSuccessOut(kind) ==
  IF kind = "registerRest"
  THEN [status |-> "201",
        msg |-> "Registration successful! Please check your email to verify your account."]
  ELSE [status |-> "OK",
        msg |-> "Registration successful! Please check your email to verify your account."]

RegisterInputInvalid(kind, email, password) ==
  IF kind = "registerRest"
  THEN RestInputInvalid(email, password)
  ELSE ~(ZodEmail(email) /\ ZodPassword(password))

\* The request up to and including its first store access: input validation,
\* then const existingUser = await db.user.findUnique(...); if (existingUser) ...
\* (nothing the request does before that access touches shared state).
RegisterFindUnique(kind, email, password) ==
  /\ Len(reqs) < MaxReq
  /\ LET r == NewReq(kind, "create", email, password, NULL)
         existingUser == FindUniqueByEmail(users, email)
     IN reqs' = Append(reqs,
                  IF RegisterInputInvalid(kind, email, password)
                  THEN [r EXCEPT !.pc = "done", !.out = RegisterInvalidOut(kind)]
                  ELSE IF existingUser # <<>>
                  THEN [r EXCEPT !.pc = "done", !.out = RegisterConflictOut(kind),
                                 !.user = existingUser]
                  ELSE r)
  /\ UNCHANGED <<users, mail, sessions, nextToken, now, logs, tasks, calls, cookie>>

\* bcrypt.hash, crypto.randomBytes(32).toString("hex") (a fresh token), then
\* await db.user.create(...).
RegisterCreate(i) ==
  /\ IsRegister(reqs[i])
  /\ reqs[i].pc = "create"
  /\ IF EmailTaken(users, reqs[i].email)
     THEN /\ reqs' = [reqs EXCEPT ![i] =
                      [@ EXCEPT !.pc = "done",
                                !.out = RegisterThrownOut(reqs[i].kind, "Unique constraint failed")]]
          /\ logs' = logs \cup RegisterThrownLog(reqs[i].kind, "Unique constraint failed")
          /\ UNCHANGED <<users, nextToken>>
     ELSE /\ users' = Append(users,
                        NewUserRow(Len(users) + 1, reqs[i].email,
                                   BcryptHash(reqs[i].password, SaltRounds), nextToken))
          /\ nextToken' = nextToken + 1
          /\ reqs' = [reqs EXCEPT ![i] = [@ EXCEPT !.pc = "sendMail", !.token = nextToken]]
          /\ logs' = logs
  /\ UNCHANGED <<mail, sessions, now, tasks, calls, cookie>>

\* Mutant: the link is built without the token of this registration.
VerificationMailWithoutToken(email, token) ==
  [to |-> email, link |-> <<"/verify-email/", EmptyToken>>]

\* sendVerificationEmail(email, token): the link embeds the token.
VerificationMail(email, token) ==
  [to |-> email, link |-> <<"/verify-email/", token>>]

\* Mutant: the handler signs the new user in when the mail was sent.
RegisterSendMailAndSignIn(i) ==
  /\ IsRegister(reqs[i])
  /\ reqs[i].pc = "sendMail"
  /\ mail' = mail \cup {VerificationMail(reqs[i].email, reqs[i].token)}
  /\ reqs' = [reqs EXCEPT ![i] =
               [@ EXCEPT !.pc = "done", !.out = RegisterSuccessOut(reqs[i].kind)]]
  /\ sessions' = sessions \cup
                   {[id |-> u.id, name |-> u.name, email |-> u.email, iat |-> now] :
                      u \in {users[k] : k \in {k \in 1..Len(users) : users[k].email = reqs[i].email}}}
  /\ UNCHANGED <<users, nextToken, now, logs, tasks, calls, cookie>>

\* Mutant: a rejected send withdraws the token of the record just created.
RegisterSendMailWithdraws(i) ==
  /\ IsRegister(reqs[i])
  /\ reqs[i].pc = "sendMail"
  /\ users' = [k \in 1..Len(users) |->
                IF users[k].verificationToken = reqs[i].token
                THEN [users[k] EXCEPT !.verificationToken = NULL]
                ELSE users[k]]
  /\ reqs' = [reqs EXCEPT ![i] =
               [@ EXCEPT !.pc = "done",
                         !.out = RegisterThrownOut(reqs[i].kind, "sendMail failed")]]
  /\ logs' = logs \cup RegisterThrownLog(reqs[i].kind, "sendMail failed")
  /\ UNCHANGED <<mail, sessions, nextToken, now, tasks, calls, cookie>>

\* await sendVerificationEmail(newUser.email, verificationToken): the transport
\* accepts the message or rejects.
RegisterSendMail(i) ==
  /\ IsRegister(reqs[i])
  /\ reqs[i].pc = "sendMail"
  /\ \E accepted \in BOOLEAN :
       IF accepted
       THEN /\ mail' = mail \cup {VerificationMail(reqs[i].email, reqs[i].token)}
            /\ reqs' = [reqs EXCEPT ![i] =
                        [@ EXCEPT !.pc = "done", !.out = RegisterSuccessOut(reqs[i].kind)]]
            /\ logs' = logs
       ELSE /\ mail' = mail
            /\ reqs' = [reqs EXCEPT ![i] =
                        [@ EXCEPT !.pc = "done",
                                  !.out = RegisterThrownOut(reqs[i].kind, "sendMail failed")]]
            /\ logs' = logs \cup RegisterThrownLog(reqs[i].kind, "sendMail failed")
  /\ UNCHANGED <<users, sessions, nextToken, now, tasks, calls, cookie>>

\* RegisterPage: the form's <input type="email" required> and
\* <input type="password" required> (the browser wants one '@' with text on
\* both sides, and a non-empty password); handleSubmit adds no check of its own.
RegisterPageAccepts(email, password) ==
  LET local == SplitAtFirst(email)
  IN /\ Len(local) > 0
     /\ Len(local) + 1 < Len(email)
     /\ \A k \in (Len(local) + 2)..Len(email) : email[k] # "@"
     /\ Len(password) > 0

\* RegisterPage.handleSubmit: fetch("/api/register", { method: "POST",
\* body: JSON.stringify(formData) }) once the form let the input through.
RegisterPageSubmit(email, password) ==
  /\ RegisterPageAccepts(email, password)
  /\ RegisterFindUnique("registerRest", email, password)

\* ------------------------------------------------------------ verification
\* VerifyEmailPage: guard on the token, findFirst by token, update by id,
\* redirect.

\* A token string no registration ever issues.
BogusToken == MaxReq + 1

\* The request up to and including its first store access: if (!token) ...,
\* then const user = await db.user.findFirst(...); if (!user) ...
VerifyFindFirst(token) ==
  /\ Len(reqs) < MaxReq
  /\ LET r == NewReq("verify", "update", <<>>, <<>>, token)
         user == FindFirstByToken(users, token)
     IN reqs' = Append(reqs,
                  IF token = EmptyToken
                  THEN Finish(r, "page", "Invalid verification link.")
                  ELSE IF user = <<>>
                  THEN Finish(r, "page", "Invalid or expired verification token.")
                  ELSE [r EXCEPT !.user = user])
  /\ UNCHANGED <<users, mail, sessions, nextToken, now, logs, tasks, calls, cookie>>

VerifyUpdate(i) ==
  /\ reqs[i].kind = "verify"
  /\ reqs[i].pc = "update"
  /\ LET id == reqs[i].user[1].id
     IN users' = [users EXCEPT ![id] = VerifiedRow(@, now)]
  /\ reqs' = [reqs EXCEPT ![i] = Finish(@, "redirect", "/login?verified=true")]
  /\ UNCHANGED <<mail, sessions, nextToken, now, logs, tasks, calls, cookie>>

\* -------------------------------------------------------------------- login
\* CredentialsProvider.authorize, callbacks.signIn, callbacks.jwt and the login
\* page's handleSubmit (which, on a failed signIn, asks /api/auth/check-email
\* which message to show).

\* Mutant: only a verified row counts as existing.
CheckEmailVerifiedOnly(us, email) ==
  LET user == FindUniqueByEmail(us, email)
      verified == ZodEmail(email) /\ user # <<>> /\ user[1].emailVerified # NULL
  IN [exists |-> verified, emailVerified |-> verified]

\* POST /api/auth/check-email: bodySchema.safeParse, findUnique, the JSON body.
CheckEmailResponse(us, email) ==
  IF ~ZodEmail(email)
  THEN [exists |-> FALSE, emailVerified |-> FALSE]
  ELSE LET user == FindUniqueByEmail(us, email)
       IN [exists |-> user # <<>>,
           emailVerified |-> user # <<>> /\ user[1].emailVerified # NULL]

\* handleSubmit, the branch taken when res.error is set.
LoginErrorToast(check) ==
  IF check.exists /\ ~check.emailVerified
  THEN "Please verify your email before logging in."
  ELSE "Incorrect email or password."

\* Mutant: the verification gate is missing from authorize.
AuthorizeNoGate(user, password) ==
  IF user = <<>> \/ user[1].password = NoPassword
  THEN [error |-> "No user found with this email.", compared |-> FALSE]
  ELSE IF ~BcryptCompare(password, user[1].password)
  THEN [error |-> "Incorrect password.", compared |-> TRUE]
  ELSE [error |-> "", compared |-> TRUE]

\* Mutant: only a missing row is rejected up front (if (!user) ...), so a row
\* without password goes on to the later checks.
AuthorizeRowOnly(user, password) ==
  IF user = <<>>
  THEN [error |-> "No user found with this email.", compared |-> FALSE]
  ELSE IF user[1].emailVerified = NULL
  THEN [error |-> "Please verify your email before logging in.", compared |-> FALSE]
  ELSE IF ~BcryptCompare(password, user[1].password)
  THEN [error |-> "Incorrect password.", compared |-> TRUE]
  ELSE [error |-> "", compared |-> TRUE]

\* Mutant: the password is compared before the verification check.
AuthorizeCompareFirst(user, password) ==
  IF user = <<>> \/ user[1].password = NoPassword
  THEN [error |-> "No user found with this email.", compared |-> FALSE]
  ELSE IF ~BcryptCompare(password, user[1].password)
  THEN [error |-> "Incorrect password.", compared |-> TRUE]
  ELSE IF user[1].emailVerified = NULL
  THEN [error |-> "Please verify your email before logging in.", compared |-> TRUE]
  ELSE [error |-> "", compared |-> TRUE]

\* authorize(credentials) after the type guard, for the row read by findUnique:
\* the message it throws ("" when it returns the user) and whether it reached
\* bcrypt.compare.
Authorize(user, password) ==
  IF user = <<>> \/ user[1].password = NoPassword
  THEN [error |-> "No user found with this email.", compared |-> FALSE]
  ELSE IF user[1].emailVerified = NULL
  THEN [error |-> "Please verify your email before logging in.", compared |-> FALSE]
  ELSE IF ~BcryptCompare(password, user[1].password)
  THEN [error |-> "Incorrect password.", compared |-> TRUE]
  ELSE [error |-> "", compared |-> TRUE]

\* callbacks.signIn({ user, account }): TRUE lets the sign-in proceed.
SignInCallback(us, provider, id) ==
  IF provider # "credentials"
  THEN TRUE
  ELSE LET existingUser == FindUniqueById(us, id)
       IN existingUser # <<>> /\ existingUser[1].emailVerified # NULL

\* Mutant: the callback assigns token.id on every call, from a user object
\* that is undefined after sign-in.
JwtCallbackAlwaysAssigns(token, user) ==
  [token EXCEPT !.id = IF user = <<>> THEN NULL ELSE user[1].id]

\* callbacks.jwt({ token, user }): if (user) { token.id = user.id }; return token.
JwtCallback(token, user) ==
  IF user # <<>> THEN [token EXCEPT !.id = user[1].id] ELSE token

\* Mutant: the whole user object is spread into the token at sign-in.
JwtClaimsSpreadUser(user, iat) ==
  [id |-> user.id, name |-> user.name, email |-> user.email, iat |-> iat,
   password |-> user.password, verificationToken |-> user.verificationToken]

\* callbacks.jwt at sign-in (token.id = user.id) on top of the default claims.
JwtClaims(user, iat) ==
  JwtCallback([id |-> NULL, name |-> user.name, email |-> user.email, iat |-> iat],
              <<user>>)

\* console.log("JWT callback", { token, user }) at the top of callbacks.jwt:
\* user is the object authorize returned (the row as findUnique read it) at
\* sign-in and undefined on every later call.
JwtCallbackLog(token, user) ==
  LogLine("JWT callback", "", <<token>>, user)

\* handleSubmit's signIn("credentials", ...) up to the end of authorize, whose
\* only store access is the findUnique by e-mail.
LoginAuthorize(email, password) ==
  /\ Len(reqs) < MaxReq
  /\ LET user == FindUniqueByEmail(users, email)
         result == Authorize(user, password)
     IN reqs' = Append(reqs,
                  [NewReq("login", IF result.error = "" THEN "signIn" ELSE "checkEmail",
                          email, password, NULL)
                     EXCEPT !.user = user,
                            !.compared = result.compared,
                            !.error = result.error])
  /\ UNCHANGED <<users, mail, sessions, nextToken, now, logs, tasks, calls, cookie>>

LoginSignIn(i) ==
  /\ reqs[i].kind = "login"
  /\ reqs[i].pc = "signIn"
  /\ IF SignInCallback(users, "credentials", reqs[i].user[1].id)
     THEN /\ sessions' = sessions \cup {JwtClaims(reqs[i].user[1], now)}
          /\ logs' = logs \cup {JwtCallbackLog(JwtClaims(reqs[i].user[1], now), reqs[i].user)}
          /\ cookie' = <<JwtClaims(reqs[i].user[1], now)>>
          /\ reqs' = [reqs EXCEPT ![i] = Finish(@, "ok", "Logged in!")]
     ELSE /\ sessions' = sessions
          /\ logs' = logs
          /\ cookie' = cookie
          /\ reqs' = [reqs EXCEPT ![i] = [@ EXCEPT !.error = "AccessDenied",
                                                   !.pc = "checkEmail"]]
  /\ UNCHANGED <<users, mail, nextToken, now, tasks, calls>>

LoginCheckEmail(i) ==
  /\ reqs[i].kind = "login"
  /\ reqs[i].pc = "checkEmail"
  /\ reqs' = [reqs EXCEPT ![i] =
               Finish(@, "error", LoginErrorToast(CheckEmailResponse(users, @.email)))]
  /\ UNCHANGED <<users, mail, sessions, nextToken, now, logs, tasks, calls, cookie>>

\* POST /api/auth/check-email called on its own: a body that is not JSON makes
\* req.json() throw (catch: 500), a body that fails bodySchema is answered
\* 200 with both flags false, any other body 200 with the flags of the row.
CheckEmailPost(isJson, email) ==
  /\ Len(reqs) < MaxReq
  /\ LET check == IF isJson THEN CheckEmailResponse(users, email)
                   ELSE [exists |-> FALSE, emailVerified |-> FALSE]
     IN reqs' = Append(reqs,
                  [NewReq("checkEmail", "done", email, <<>>, NULL)
                     EXCEPT !.out = [status |-> IF isJson THEN "200" ELSE "500",
                              msg |-> "",
                              exists |-> check.exists,
                              emailVerified |-> check.emailVerified]])
  /\ logs' = IF isJson THEN logs
             ELSE logs \cup {LogLine("check-email error:", "error", <<>>, <<>>)}
  /\ UNCHANGED <<users, mail, sessions, nextToken, now, tasks, calls, cookie>>

\* ------------------------------------------------------------------ sessions
\* session: { strategy: "jwt", maxAge }, callbacks.jwt and callbacks.session on
\* the requests that follow a sign-in, createTRPCContext and
\* protectedProcedure.

\* maxAge: 30 * 24 * 60 * 60 (seconds).
SessionMaxAge == 30 * 24 * 60 * 60

\* Seconds between two readings of the clock.
SecondsPerTick == 31 * 24 * 60 * 60

\* Mutant: the token carries no expiry.
NeverExpired(token, t) == FALSE

\* The token's exp claim is iat + maxAge; decoding rejects it from then on.
SessionExpired(token, t) ==
  (t - token.iat) * SecondsPerTick >= SessionMaxAge

\* callbacks.session({ session, token }): { ...session, user: { ...session.user,
\* id: token.id } }, session.user being the default { name, email } of the token.
SessionCallback(token) ==
  [user |-> <<[id |-> token.id, name |-> token.name, email |-> token.email]>>]

\* auth(): no session without a cookie or with an expired token; otherwise the
\* token goes through callbacks.jwt (no user object) and callbacks.session.
Auth(presented, t) ==
  IF presented = <<>> \/ SessionExpired(presented[1], t)
  THEN <<>>
  ELSE <<SessionCallback(JwtCallback(presented[1], <<>>))>>

\* The console line callbacks.jwt writes when auth() decodes a live token.
AuthLog(presented, t) ==
  IF presented = <<>> \/ SessionExpired(presented[1], t)
  THEN {}
  ELSE {JwtCallbackLog(presented[1], <<>>)}

\* A request that asks for its session (const session = await auth(), as the
\* pages do): the identity on a live token, nothing otherwise.
GetSession(presented) ==
  /\ Len(reqs) < MaxReq
  /\ LET session == Auth(presented, now)
         r == [NewReq("session", "done", <<>>, <<>>, NULL)
                 EXCEPT !.claims = presented, !.session = session]
     IN reqs' = Append(reqs,
                  IF session = <<>>
                  THEN [r EXCEPT !.out = [status |-> "unauthenticated", msg |-> ""]]
                  ELSE [r EXCEPT !.out = [status |-> "authenticated", msg |-> ""]])
  /\ logs' = logs \cup AuthLog(presented, now)
  /\ UNCHANGED <<users, mail, sessions, nextToken, now, tasks, calls, cookie>>

\* Mutant: the middleware only looks for a session object.
ProtectedMiddlewareSessionOnly(session) == session # <<>>

\* protectedProcedure's middleware: if (!ctx.session?.user) throw
\* new TRPCError({ code: "UNAUTHORIZED" }); TRUE when it calls next().
ProtectedMiddleware(session) ==
  session # <<>> /\ session[1].user # <<>>

\* A call of a protected procedure: createTRPCContext puts auth()'s session in
\* the context (a server-side caller may build the context itself, a session
\* object without user included), the middleware decides, the handler runs
\* only behind next().
ProtectedCall(presented, viaAuth) ==
  /\ Len(reqs) < MaxReq
  /\ LET session == IF viaAuth THEN Auth(presented, now) ELSE <<[user |-> <<>>]>>
         r == [NewReq("protected", "done", <<>>, <<>>, NULL)
                 EXCEPT !.claims = presented, !.session = session]
     IN reqs' = Append(reqs,
                  IF ProtectedMiddleware(session)
                  THEN [r EXCEPT !.handled = TRUE,
                                 !.out = [status |-> "OK", msg |-> ""]]
                  ELSE [r EXCEPT !.out = [status |-> "UNAUTHORIZED", msg |-> ""]])
  /\ logs' = logs \cup (IF viaAuth THEN AuthLog(presented, now) ELSE {})
  /\ UNCHANGED <<users, mail, sessions, nextToken, now, tasks, calls, cookie>>

\* Mutant: the page renders whenever a cookie came with the request.
TasksPageGateCookieOnly(presented, session) == presented # <<>>

\* TasksPage: if (!session?.user) redirect(...); TRUE when the page goes on to
\* render.
TasksPageGate(presented, session) ==
  session # <<>> /\ session[1].user # <<>>

\* TasksPage: const session = await auth(); console.log(...); redirect to
\* /login?callbackUrl=/tasks without a session user, the task UI otherwise.
TasksPage(presented) ==
  /\ Len(reqs) < MaxReq
  /\ LET session == Auth(presented, now)
         r == [NewReq("tasksPage", "done", <<>>, <<>>, NULL)
                 EXCEPT !.claims = presented, !.session = session]
     IN /\ reqs' = Append(reqs,
                     IF TasksPageGate(presented, session)
                     THEN [r EXCEPT !.out = [status |-> "render", msg |-> "Tasks for"]]
                     ELSE [r EXCEPT !.out = [status |-> "redirect",
                                             msg |-> "/login?callbackUrl=/tasks"]])
        /\ logs' = logs \cup AuthLog(presented, now)
                     \cup {LogLine("--- SESSION ON /tasks PAGE ---",
                                   IF session = <<>> THEN "null" ELSE "session",
                                   <<>>, <<>>)}
  /\ UNCHANGED <<users, mail, sessions, nextToken, now, tasks, calls, cookie>>

\* LogoutButton: onClick={() => signOut()}: the browser's session cookie is
\* cleared; the token itself is not revoked.
Logout ==
  /\ Len(reqs) < MaxReq
  /\ cookie # <<>>
  /\ reqs' = Append(reqs, [NewReq("logout", "done", <<>>, <<>>, NULL)
                             EXCEPT !.claims = cookie,
                                    !.out = [status |-> "ok", msg |-> ""]])
  /\ cookie' = <<>>
  /\ UNCHANGED <<users, mail, sessions, nextToken, now, logs, tasks, calls>>

\* ---------------------------------------------------------- federated sign-in
\* DiscordProvider with the Prisma adapter: the first sign-in of an e-mail
\* creates a row without password; callbacks.signIn lets every
\* non-credentials sign-in through.

FederatedRow(id, email) ==
  [id |-> id, email |-> email, password |-> NoPassword,
   name |-> SplitAtFirst(email), emailVerified |-> NULL,
   verificationToken |-> NULL]

FederatedSignIn(email) ==
  /\ Len(reqs) < MaxReq
  /\ LET r == NewReq("federated", "done", email, <<>>, NULL)
         found == FindUniqueByEmail(users, email)
         row == IF found = <<>> THEN FederatedRow(Len(users) + 1, email) ELSE found[1]
         allowed == SignInCallback(users, "discord", row.id)
     IN IF allowed /\ row.password = NoPassword
        THEN /\ users' = IF found = <<>> THEN Append(users, row) ELSE users
             /\ sessions' = sessions \cup {JwtClaims(row, now)}
             /\ logs' = logs \cup {JwtCallbackLog(JwtClaims(row, now), <<row>>)}
             /\ cookie' = <<JwtClaims(row, now)>>
             /\ reqs' = Append(reqs, [r EXCEPT !.user = <<row>>,
                                               !.out = [status |-> "ok", msg |-> ""]])
        ELSE /\ UNCHANGED <<users, sessions, logs, cookie>>
             /\ reqs' = Append(reqs, [r EXCEPT !.error = "OAuthAccountNotLinked",
                                               !.user = found,
                                               !.out = [status |-> "error", msg |-> ""]])
  /\ UNCHANGED <<mail, nextToken, now, tasks, calls>>

\* -------------------------------------------------------------------- tasks
\* taskRouter (getAll, create, toggle, delete), every procedure built on
\* publicProcedure = t.procedure.use(timingMiddleware).

TitleA == <<"a">>
TitleEmpty == <<>>

\* An id no task ever gets.
MissingTaskId == MaxCalls + 1

\* What a stage hands to the stage above it: a value or an error.
Ok(data) == [ok |-> TRUE, error |-> "", data |-> data]
Err(error) == [ok |-> FALSE, error |-> error, data |-> <<>>]

\* Mutant: the middleware answers an empty success when the stage below failed.
TimingMiddlewareSwallows(isDev, nextResult) ==
  [nextCalls |-> 1, waited |-> isDev,
   result |-> IF nextResult.ok THEN nextResult ELSE Ok(<<>>)]

\* timingMiddleware: in development wait 100..499 ms first; then
\* const result = await next(); log the elapsed time; return result.
TimingMiddleware(isDev, nextResult) ==
  [nextCalls |-> 1, waited |-> isDev, result |-> nextResult]

\* console.log(`[TRPC] ${path} took ${end - start}ms to execute`)
TimingLog(path) == LogLine("[TRPC] took", path, <<>>, <<>>)

\* Mutant: the procedures are built on a base that wants a session.
RequiresSession(session) == session # <<>>

\* publicProcedure: nothing between the timing middleware and the handler
\* looks at ctx.session.
PublicProcedure(session) == TRUE

\* z.object({ title: z.string().min(1) })
ZodTitle(title) == Len(title) >= 1

\* orderBy: { createdAt: "desc" }
RECURSIVE OrderByCreatedAtDesc(_)
OrderByCreatedAtDesc(rows) ==
  IF rows = {} THEN <<>>
  ELSE LET newest == CHOOSE r \in rows : \A q \in rows : q.createdAt <= r.createdAt
       IN <<newest>> \o OrderByCreatedAtDesc(rows \ {newest})

\* ctx.db.task.findUnique({ where: { id } })
FindTask(ts, id) ==
  LET hit == {r \in ts : r.id = id}
  IN IF hit = {} THEN <<>> ELSE <<CHOOSE r \in hit : TRUE>>

\* The row written by ctx.db.task.create({ data: { title } }): id and
\* createdAt are generated, completed defaults to false.
NewTaskRowCompleted(ordinal, title) ==
  [id |-> ordinal, title |-> title, completed |-> TRUE, createdAt |-> ordinal]

NewTaskRow(ordinal, title) ==
  [id |-> ordinal, title |-> title, completed |-> FALSE, createdAt |-> ordinal]

\* The number of rows ever created plus one.
NextTaskOrdinal ==
  1 + Cardinality({i \in 1..Len(calls) : calls[i].kind = "create" /\ calls[i].out.ok})

\* Who calls: the deployment mode the server runs in and the cookie sent.
NewCall(kind, caller, id, title) ==
  [kind |-> kind, pc |-> "done", isDev |-> caller.isDev,
   session |-> Auth(caller.presented, now), id |-> id, title |-> title,
   read |-> <<>>, gate |-> FALSE, nextCalls |-> 0,
   downstream |-> Err("pending"), out |-> Err("pending")]

\* The handler's result goes back up through the timing middleware; when the
\* procedure's base refuses the request the handler's stage is never reached.
Return(c, handlerResult) ==
  LET nextResult == IF PublicProcedure(c.session) THEN handlerResult
                    ELSE Err("UNAUTHORIZED")
      timed == TimingMiddleware(c.isDev, nextResult)
  IN [c EXCEPT !.pc = "done", !.gate = PublicProcedure(c.session),
               !.nextCalls = timed.nextCalls,
               !.downstream = nextResult, !.out = timed.result]

\* What a finished or started call writes to the console.
CallLog(caller, path) == AuthLog(caller.presented, now) \cup {TimingLog(path)}

\* getAll: ctx.db.task.findMany({ orderBy: { createdAt: "desc" } })
TaskGetAll(caller) ==
  /\ Len(calls) < MaxCalls
  /\ calls' = Append(calls, Return(NewCall("getAll", caller, NULL, <<>>),
                                   Ok(OrderByCreatedAtDesc(tasks))))
  /\ logs' = logs \cup CallLog(caller, "task.getAll")
  /\ UNCHANGED <<users, mail, reqs, sessions, nextToken, now, tasks, cookie>>

\* create: input validation, then ctx.db.task.create({ data: { title } })
TaskCreate(caller, title) ==
  /\ Len(calls) < MaxCalls
  /\ LET c == NewCall("create", caller, NULL, title)
         row == NewTaskRow(NextTaskOrdinal, title)
     IN IF ZodTitle(title) /\ PublicProcedure(c.session)
        THEN /\ tasks' = tasks \cup {row}
             /\ calls' = Append(calls, Return(c, Ok(<<row>>)))
        ELSE /\ tasks' = tasks
             /\ calls' = Append(calls, Return(c, Err("BAD_REQUEST")))
  /\ logs' = logs \cup CallLog(caller, "task.create")
  /\ UNCHANGED <<users, mail, reqs, sessions, nextToken, now, cookie>>

\* toggle, first half: const task = await ctx.db.task.findUnique(...);
\* if (!task) throw new Error("Task not found")
TaskToggleRead(caller, id) ==
  /\ Len(calls) < MaxCalls
  /\ LET c == NewCall("toggle", caller, id, <<>>)
         task == FindTask(tasks, id)
     IN calls' = Append(calls,
                   IF ~PublicProcedure(c.session) THEN Return(c, Err("UNAUTHORIZED"))
                   ELSE IF task = <<>> THEN Return(c, Err("Task not found"))
                   ELSE [c EXCEPT !.pc = "update", !.read = task])
  /\ logs' = logs \cup AuthLog(caller.presented, now)
  /\ UNCHANGED <<users, mail, reqs, sessions, nextToken, now, tasks, cookie>>

\* toggle, second half: ctx.db.task.update({ where: { id },
\* data: { completed: !task.completed } }); the store rejects the update of a
\* row that is gone.
TaskToggleWrite(i) ==
  /\ calls[i].kind = "toggle"
  /\ calls[i].pc = "update"
  /\ LET row == FindTask(tasks, calls[i].id)
         written == [row[1] EXCEPT !.completed = ~calls[i].read[1].completed]
     IN IF row = <<>>
        THEN /\ tasks' = tasks
             /\ calls' = [calls EXCEPT ![i] = Return(@, Err("Record to update not found"))]
        ELSE /\ tasks' = (tasks \ {row[1]}) \cup {written}
             /\ calls' = [calls EXCEPT ![i] = Return(@, Ok(<<written>>))]
  /\ logs' = logs \cup {TimingLog("task.toggle")}
  /\ UNCHANGED <<users, mail, reqs, sessions, nextToken, now, cookie>>

\* delete: ctx.db.task.delete({ where: { id } }); the store rejects the delete
\* of a row that does not exist.
TaskDelete(caller, id) ==
  /\ Len(calls) < MaxCalls
  /\ LET c == NewCall("delete", caller, id, <<>>)
         row == FindTask(tasks, id)
     IN IF row # <<>> /\ PublicProcedure(c.session)
        THEN /\ tasks' = tasks \ {row[1]}
             /\ calls' = Append(calls, Return(c, Ok(row)))
        ELSE /\ tasks' = tasks
             /\ calls' = Append(calls, Return(c, Err("Record to delete does not exist")))
  /\ logs' = logs \cup CallLog(caller, "task.delete")
  /\ UNCHANGED <<users, mail, reqs, sessions, nextToken, now, cookie>>

\* ------------------------------------------------------------ specification

\* The inputs the registration handlers are exercised with: accepted by both
\* entry points, or by the REST route only.
RegisterInputs ==
  {<<"registerRest", EmailA, PwStrong>>, <<"registerTrpc", EmailA, PwStrong>>,
   <<"registerRest", EmailB, PwWeak>>,
   <<"registerRest", EmailBad, PwStrong>>}

\* The logins exercised: the registered e-mail with the right and a wrong
\* password, and an e-mail nobody registered with a password.
LoginInputs ==
  {<<EmailA, PwStrong>>, <<EmailA, PwWeak>>, <<EmailB, PwStrong>>}

\* Tokens a visitor of /verify-email/{token} may present: the empty segment,
\* the token of every link that was mailed, and one that was never issued.
VerifyTokens == {EmptyToken, BogusToken} \cup {m.link[2] : m \in mail}

\* Every operation on the credential store, each entry point with one accepted
\* input per e-mail.
Next ==
  \/ \E k \in {"registerRest", "registerTrpc"} : RegisterFindUnique(k, EmailA, PwStrong)
  \/ \E i \in 1..Len(reqs) : RegisterCreate(i)
  \/ \E i \in 1..Len(reqs) : RegisterSendMail(i)
  \/ \E t \in VerifyTokens \ {EmptyToken} : VerifyFindFirst(t)
  \/ \E i \in 1..Len(reqs) : VerifyUpdate(i)
  \/ \E e \in Emails : LoginAuthorize(e, PwStrong)
  \/ \E i \in 1..Len(reqs) : LoginSignIn(i)
  \/ \E i \in 1..Len(reqs) : LoginCheckEmail(i)
  \/ FederatedSignIn(EmailB)

Spec == Init /\ [][Next]_vars

\* Registration through both entry points with every input, racing with itself
\* and with first-time federated sign-ins.
NextRegister ==
  \/ \E in \in RegisterInputs : RegisterFindUnique(in[1], in[2], in[3])
  \/ \E i \in 1..Len(reqs) : RegisterCreate(i)
  \/ \E i \in 1..Len(reqs) : RegisterSendMail(i)
  \/ FederatedSignIn(EmailA)

SpecRegister == Init /\ [][NextRegister]_vars

\* What is posted for one address again and again: input both routes accept,
\* a password only the REST route accepts, and one neither accepts.
RetryInputs ==
  {<<"registerRest", EmailA, PwStrong>>, <<"registerTrpc", EmailA, PwStrong>>,
   <<"registerTrpc", EmailA, PwWeak>>, <<"registerRest", EmailA, PwShort>>,
   <<"registerRest", EmailB, PwWeak>>}

\* Registrations repeated for an address whose mail may have failed.
NextRetry ==
  \/ \E in \in RetryInputs : RegisterFindUnique(in[1], in[2], in[3])
  \/ \E i \in 1..Len(reqs) : RegisterCreate(i)
  \/ \E i \in 1..Len(reqs) : RegisterSendMail(i)

SpecRetry == Init /\ [][NextRetry]_vars

\* Registration followed by verification requests, with the clock running.
NextVerify ==
  \/ Tick
  \/ \E e \in Emails : RegisterFindUnique("registerRest", e, PwStrong)
  \/ \E i \in 1..Len(reqs) : RegisterCreate(i)
  \/ \E i \in 1..Len(reqs) : RegisterSendMail(i)
  \/ \E t \in VerifyTokens : VerifyFindFirst(t)
  \/ \E i \in 1..Len(reqs) : VerifyUpdate(i)

SpecVerify == Init /\ [][NextVerify]_vars

\* Registration, verification and logins of known and unknown e-mails with
\* right and wrong passwords.
NextLogin ==
  \/ RegisterFindUnique("registerRest", EmailA, PwStrong)
  \/ \E i \in 1..Len(reqs) : RegisterCreate(i)
  \/ \E i \in 1..Len(reqs) : RegisterSendMail(i)
  \/ \E t \in VerifyTokens \ {EmptyToken} : VerifyFindFirst(t)
  \/ \E i \in 1..Len(reqs) : VerifyUpdate(i)
  \/ \E in \in LoginInputs : LoginAuthorize(in[1], in[2])
  \/ \E i \in 1..Len(reqs) : LoginSignIn(i)
  \/ \E i \in 1..Len(reqs) : LoginCheckEmail(i)
  \/ FederatedSignIn(EmailB)

SpecLogin == Init /\ [][NextLogin]_vars

\* The bodies posted to check-email: an address, a string that is no address,
\* and a body that is not JSON.
CheckEmailBodies ==
  {<<TRUE, EmailA>>, <<TRUE, EmailB>>, <<TRUE, EmailBad>>, <<FALSE, <<>>>>}

\* Registration and verification of one account while check-email is asked
\* about stored, unknown and malformed addresses.
NextCheck ==
  \/ Tick
  \/ RegisterFindUnique("registerRest", EmailA, PwStrong)
  \/ \E i \in 1..Len(reqs) : RegisterCreate(i)
  \/ \E i \in 1..Len(reqs) : RegisterSendMail(i)
  \/ \E t \in VerifyTokens \ {EmptyToken} : VerifyFindFirst(t)
  \/ \E i \in 1..Len(reqs) : VerifyUpdate(i)
  \/ FederatedSignIn(EmailB)
  \/ \E b \in CheckEmailBodies : CheckEmailPost(b[1], b[2])

SpecCheck == Init /\ [][NextCheck]_vars

\* The session cookies a client may send: none, or a token issued at a sign-in.
Presentable == {<<>>} \cup {<<s>> : s \in sessions}

\* Sign-ins followed by requests that present the issued tokens while the
\* clock runs.
NextSession ==
  \/ Tick
  \/ RegisterFindUnique("registerRest", EmailA, PwStrong)
  \/ \E i \in 1..Len(reqs) : RegisterCreate(i)
  \/ \E i \in 1..Len(reqs) : RegisterSendMail(i)
  \/ \E t \in VerifyTokens \ {EmptyToken, BogusToken} : VerifyFindFirst(t)
  \/ \E i \in 1..Len(reqs) : VerifyUpdate(i)
  \/ LoginAuthorize(EmailA, PwStrong)
  \/ \E i \in 1..Len(reqs) : LoginSignIn(i)
  \/ \E i \in 1..Len(reqs) : LoginCheckEmail(i)
  \/ FederatedSignIn(EmailB)
  \/ \E p \in Presentable : GetSession(p)
  \/ \E p \in Presentable, viaAuth \in BOOLEAN : ProtectedCall(p, viaAuth)

SpecSession == Init /\ [][NextSession]_vars

\* Who calls the task procedures: a development server reached without
\* cookie, a production server reached with the browser's cookie.
TaskCallers ==
  {[isDev |-> TRUE, presented |-> <<>>], [isDev |-> FALSE, presented |-> cookie]}

\* The ids a client may name: those of the rows that exist and one that none has.
TaskIds == {r.id : r \in tasks} \cup {MissingTaskId}

\* What the callers create: a titled task from either, an empty title from
\* the first.
TaskCreateInputs ==
  {<<c, TitleA>> : c \in TaskCallers}
    \cup {<<[isDev |-> TRUE, presented |-> <<>>], TitleEmpty>>}

\* The task procedures called before and after the browser signs in (once).
NextTask ==
  \/ cookie = <<>> /\ FederatedSignIn(EmailB)
  \/ \E caller \in TaskCallers : TaskGetAll(caller)
  \/ \E in \in TaskCreateInputs : TaskCreate(in[1], in[2])
  \/ \E caller \in TaskCallers, id \in TaskIds : TaskToggleRead(caller, id)
  \/ \E i \in 1..Len(calls) : TaskToggleWrite(i)
  \/ \E caller \in TaskCallers, id \in TaskIds : TaskDelete(caller, id)

SpecTask == Init /\ [][NextTask]_vars

\* A browser that signs in, opens /tasks, logs out and opens /tasks again,
\* and a client without cookie, while the clock runs.
NextPages ==
  \/ Tick
  \/ RegisterFindUnique("registerRest", EmailA, PwStrong)
  \/ \E i \in 1..Len(reqs) : RegisterCreate(i)
  \/ \E i \in 1..Len(reqs) : RegisterSendMail(i)
  \/ \E t \in VerifyTokens \ {EmptyToken, BogusToken} : VerifyFindFirst(t)
  \/ \E i \in 1..Len(reqs) : VerifyUpdate(i)
  \/ LoginAuthorize(EmailA, PwStrong)
  \/ \E i \in 1..Len(reqs) : LoginSignIn(i)
  \/ \E i \in 1..Len(reqs) : LoginCheckEmail(i)
  \/ FederatedSignIn(EmailB)
  \/ \E p \in {<<>>, cookie} : TasksPage(p)
  \/ Logout

SpecPages == Init /\ [][NextPages]_vars

\* What a visitor types into the registration form, and logs in with later.
PageInputs == {<<EmailA, PwStrong>>, <<EmailB, PwShort>>, <<EmailBad, PwStrong>>}

\* The visitor's path: the registration form, the mailed link, the login form.
NextFlow ==
  \/ \E in \in PageInputs : RegisterPageSubmit(in[1], in[2])
  \/ \E i \in 1..Len(reqs) : RegisterCreate(i)
  \/ \E i \in 1..Len(reqs) : RegisterSendMail(i)
  \/ \E t \in VerifyTokens \ {EmptyToken, BogusToken} : VerifyFindFirst(t)
  \/ \E i \in 1..Len(reqs) : VerifyUpdate(i)
  \/ \E in \in PageInputs : LoginAuthorize(in[1], in[2])
  \/ \E i \in 1..Len(reqs) : LoginSignIn(i)
  \/ \E i \in 1..Len(reqs) : LoginCheckEmail(i)

SpecFlow == Init /\ [][NextFlow]_vars

\* ===================================================================== claims

ReqIds == 1..Len(reqs)
UserIds == 1..Len(users)
IssuedTokens == 1..(nextToken - 1)

VerifySucceeded(r) ==
  /\ r.kind = "verify"
  /\ r.pc = "done"
  /\ r.out = [status |-> "redirect", msg |-> "/login?verified=true"]

VerifyExpired(r) ==
  /\ r.kind = "verify"
  /\ r.pc = "done"
  /\ r.out = [status |-> "page", msg |-> "Invalid or expired verification token."]

VerifyInvalidLink(r) ==
  /\ r.kind = "verify"
  /\ r.pc = "done"
  /\ r.out = [status |-> "page", msg |-> "Invalid verification link."]

RegisterSucceeded(r) ==
  IsRegister(r) /\ r.pc = "done" /\ r.out = RegisterSuccessOut(r.kind)

RegisterConflicted(r) ==
  IsRegister(r) /\ r.pc = "done" /\ r.out = RegisterConflictOut(r.kind)

\* The store rejected the insert of this request (it never wrote a row).
RegisterRejectedByStore(r) ==
  /\ IsRegister(r)
  /\ r.pc = "done"
  /\ r.token = NULL
  /\ r.out = RegisterThrownOut(r.kind, "Unique constraint failed")

\* C1: of two finished verification requests that carry the same token, the
\* earlier of which found the token unconsumed, exactly one was redirected to
\* /login?verified=true and the other got "Invalid or expired verification
\* token" (whatever the interleaving of their lookups and updates).
C1_ExactlyOneVerificationSucceeds ==
  \A i, j \in ReqIds :
    ( /\ i < j
      /\ reqs[i].kind = "verify" /\ reqs[j].kind = "verify"
      /\ reqs[i].token = reqs[j].token
      /\ reqs[i].user # <<>>
      /\ reqs[i].pc = "done" /\ reqs[j].pc = "done" )
    => \/ VerifySucceeded(reqs[i]) /\ VerifyExpired(reqs[j])
       \/ VerifyExpired(reqs[i]) /\ VerifySucceeded(reqs[j])

\* C2: two finished register requests with the same e-mail and valid inputs
\* (no other request for that e-mail, every verification mail accepted by the
\* transport) ended with exactly one success and exactly one "Email already in
\* use" conflict.
C2_OneSuccessOneConflict ==
  \A i, j \in ReqIds :
    ( /\ i < j
      /\ IsRegister(reqs[i]) /\ IsRegister(reqs[j])
      /\ reqs[i].email = reqs[j].email
      /\ ZodEmail(reqs[i].email)
      /\ reqs[i].pc = "done" /\ reqs[j].pc = "done"
      /\ \A k \in {i, j} :
           /\ ~RegisterInputInvalid(reqs[k].kind, reqs[k].email, reqs[k].password)
           /\ reqs[k].token # NULL
                => VerificationMail(reqs[k].email, reqs[k].token) \in mail
      /\ \A k \in ReqIds \ {i, j} : reqs[k].email # reqs[i].email )
    => \/ RegisterSucceeded(reqs[i]) /\ RegisterConflicted(reqs[j])
       \/ RegisterConflicted(reqs[i]) /\ RegisterSucceeded(reqs[j])

\* C3: the store never holds two user records with the same e-mail.
C3_OneRecordPerEmail ==
  \A a, b \in UserIds : users[a].email = users[b].email => a = b

\* C3 witness: two requests for one e-mail both passed the existence lookup,
\* one row was written and the other insert was rejected.
C3_Witness ==
  \E i, j \in ReqIds :
    /\ i # j
    /\ RegisterRejectedByStore(reqs[i])
    /\ IsRegister(reqs[j])
    /\ reqs[j].email = reqs[i].email
    /\ reqs[j].token # NULL
    /\ \E a \in UserIds : users[a].email = reqs[i].email

\* C4: once a verification request with token t has been redirected to
\* /login?verified=true, every verification request made afterwards with the
\* same t gets "Invalid or expired verification token" and changes no user
\* record.
C4_ConsumedTokenStaysDead ==
  [][ \A i \in ReqIds :
        VerifySucceeded(reqs[i]) =>
          \A r \in {reqs'[n] : n \in (1..Len(reqs')) \ ReqIds} :
            (r.kind = "verify" /\ r.token = reqs[i].token)
              => VerifyExpired(r) /\ users' = users ]_vars

\* C4 witness: a verification succeeded and a later request with the same
\* token was turned away.
C4_Witness ==
  \E i, j \in ReqIds :
    /\ i < j
    /\ VerifySucceeded(reqs[i])
    /\ VerifyExpired(reqs[j])
    /\ reqs[j].token = reqs[i].token

\* C5: a user record that holds a verification token is unverified.
C5_TokenImpliesUnverified ==
  \A a \in UserIds :
    users[a].verificationToken # NULL => users[a].emailVerified = NULL

\* C5 witness: a verification consumed a token: the row it updated is verified
\* and holds no token.
C5_Witness ==
  \E i \in ReqIds, a \in UserIds :
    /\ VerifySucceeded(reqs[i])
    /\ reqs[i].user[1].id = a
    /\ reqs[i].user[1].verificationToken # NULL
    /\ users[a].emailVerified # NULL
    /\ users[a].verificationToken = NULL

\* C6: a verified user stays verified and token-less (and keeps its e-mail) in
\* every step of every operation.
C6_VerifiedIsStable ==
  [][ \A a \in UserIds :
        users[a].emailVerified # NULL =>
          /\ a \in 1..Len(users')
          /\ users'[a].emailVerified # NULL
          /\ users'[a].verificationToken = NULL
          /\ users'[a].email = users[a].email ]_vars

\* C6 witness: operations ran on a verified account: a login succeeded for it
\* and a registration with its e-mail was answered with the conflict.
C6_Witness ==
  \E a \in UserIds, i, j \in ReqIds :
    /\ users[a].emailVerified # NULL
    /\ reqs[i].kind = "login" /\ reqs[i].pc = "done" /\ reqs[i].out.status = "ok"
    /\ reqs[i].user[1].id = a
    /\ RegisterConflicted(reqs[j])
    /\ reqs[j].user # <<>> /\ reqs[j].user[1].emailVerified # NULL
    /\ reqs[j].email = users[a].email

\* C7: a verification request with an empty token is answered "Invalid
\* verification link." and one whose token equals no stored token "Invalid or
\* expired verification token."; neither changes a user record. A record
\* becomes verified only in the update step of a request that carries the
\* record's stored token, and new records start unverified.
C7_NoVerificationWithoutToken ==
  [][ /\ \A r \in {reqs'[n] : n \in (1..Len(reqs')) \ ReqIds} :
           r.kind = "verify" =>
             /\ r.token = EmptyToken => VerifyInvalidLink(r) /\ users' = users
             /\ ( /\ r.token # EmptyToken
                  /\ \A a \in UserIds : users[a].verificationToken # r.token )
                  => VerifyExpired(r) /\ users' = users
      /\ \A a \in UserIds :
           (users[a].emailVerified = NULL /\ users'[a].emailVerified # NULL) =>
             \E i \in ReqIds :
               /\ reqs[i].kind = "verify" /\ reqs[i].pc = "update"
               /\ VerifySucceeded(reqs'[i])
               /\ reqs[i].token = users[a].verificationToken
      /\ \A a \in (1..Len(users')) \ UserIds : users'[a].emailVerified = NULL ]_vars

\* C7 witness: with an unverified record stored, an empty token and an unknown
\* token were both turned away, and the record's own token verified it.
C7_Witness ==
  \E i, j, k \in ReqIds :
    /\ VerifyInvalidLink(reqs[i])
    /\ VerifyExpired(reqs[j]) /\ reqs[j].token = BogusToken
    /\ VerifySucceeded(reqs[k])
    /\ \A a \in UserIds : users[a].emailVerified # NULL

\* The register request that wrote the row of this e-mail, as a set (empty for
\* a federated row).
RegistrationOf(email) ==
  {i \in ReqIds : IsRegister(reqs[i]) /\ reqs[i].token # NULL /\ reqs[i].email = email}

\* C8: a login with the password the account was registered with is refused
\* with "Please verify your email before logging in." while the account is
\* unverified, and once the account is verified it passes authorize and the
\* signIn callback and ends logged in with a session for that user.
C8_LoginGatedOnVerification ==
  [][ /\ \A r \in {reqs'[n] : n \in (1..Len(reqs')) \ ReqIds} :
           r.kind = "login" =>
             \A i \in RegistrationOf(r.email), a \in UserIds :
               (reqs[i].password = r.password /\ users[a].email = r.email) =>
                 IF users[a].emailVerified = NULL
                 THEN /\ r.error = "Please verify your email before logging in."
                      /\ r.pc = "checkEmail"
                      /\ sessions' = sessions
                 ELSE r.error = "" /\ r.pc = "signIn"
      /\ \A i \in ReqIds :
           (reqs[i].kind = "login" /\ reqs[i].pc = "signIn" /\ reqs'[i] # reqs[i]) =>
             /\ reqs'[i].pc = "done"
             /\ reqs'[i].out = [status |-> "ok", msg |-> "Logged in!"]
             /\ \E c \in sessions' : c.id = reqs[i].user[1].id
                                      /\ c.email = reqs[i].email ]_vars

\* C8 witness: the same credentials were refused before the verification and
\* accepted after it.
C8_Witness ==
  \E i, j \in ReqIds : \E k \in RegistrationOf(reqs[i].email) :
    /\ i < j
    /\ reqs[i].kind = "login" /\ reqs[j].kind = "login"
    /\ reqs[i].email = reqs[j].email
    /\ reqs[i].password = reqs[k].password
    /\ reqs[j].password = reqs[k].password
    /\ reqs[i].error = "Please verify your email before logging in."
    /\ reqs[j].pc = "done" /\ reqs[j].out.status = "ok"

\* What an observer of a finished login learns: the error raised by the
\* sign-in and the message the login page shows.
LoginPayload(r) == [error |-> r.error, toast |-> r.out.msg]

\* C9: a finished login for an e-mail with no record and a finished login for
\* a password account with a password other than the registered one carry the
\* same error payload.
C9_UniformLoginError ==
  \A i, j \in ReqIds :
    ( /\ reqs[i].kind = "login" /\ reqs[i].pc = "done"
      /\ reqs[j].kind = "login" /\ reqs[j].pc = "done"
      /\ reqs[i].user = <<>>
      /\ reqs[j].user # <<>>
      /\ \E k \in RegistrationOf(reqs[j].email) : reqs[k].password # reqs[j].password )
    => LoginPayload(reqs[i]) = LoginPayload(reqs[j])

\* C10: a password login that finds no record, or a record whose password is
\* null, fails with "No user found with this email.", never reaches
\* bcrypt.compare and never ends logged in.
C10_NoRecordOrNoPassword ==
  \A i \in ReqIds :
    ( /\ reqs[i].kind = "login"
      /\ \/ reqs[i].user = <<>>
         \/ reqs[i].user[1].password = NoPassword )
    => /\ reqs[i].error = "No user found with this email."
       /\ ~reqs[i].compared
       /\ reqs[i].pc \in {"checkEmail", "done"}
       /\ reqs[i].pc = "done" => reqs[i].out.status = "error"

\* C10 witness: one finished login found no record, another found a record
\* created by a federated sign-in.
C10_Witness ==
  \E i, j \in ReqIds :
    /\ reqs[i].kind = "login" /\ reqs[i].pc = "done" /\ reqs[i].user = <<>>
    /\ reqs[j].kind = "login" /\ reqs[j].pc = "done" /\ reqs[j].user # <<>>
    /\ reqs[j].user[1].password = NoPassword
    /\ reqs[i].error = reqs[j].error

\* C11: a finished federated sign-in for an e-mail whose record carries a
\* password and is still unverified was denied with the unverified-e-mail
\* error ("Please verify your email before logging in.") and issued no session.
C11_FederatedDeniedWhenUnverified ==
  \A i \in ReqIds :
    ( /\ reqs[i].kind = "federated"
      /\ reqs[i].pc = "done"
      /\ reqs[i].user # <<>>
      /\ reqs[i].user[1].password # NoPassword
      /\ reqs[i].user[1].emailVerified = NULL )
    => /\ ~SignInCallback(users, "discord", reqs[i].user[1].id)
       /\ reqs[i].error = "Please verify your email before logging in."

\* C12: for every register request that ended in success (no verification has
\* run yet) the store holds exactly one record with its e-mail; that record
\* is unverified, its token is non-null and is the token of the link mailed to
\* that address, its name is the e-mail up to the first '@' (all of it when
\* the REST route let an address without '@' through), and its password is a
\* hash that matches the submitted password and differs from it.
C12_RegistrationRecord ==
  \A i \in ReqIds :
    RegisterSucceeded(reqs[i]) =>
      LET rows == {u \in UserIds : users[u].email = reqs[i].email}
      IN /\ Cardinality(rows) = 1
         /\ \A u \in rows :
              /\ users[u].emailVerified = NULL
              /\ users[u].verificationToken # NULL
              /\ VerificationMail(reqs[i].email, users[u].verificationToken) \in mail
              /\ \A m \in mail :
                   m.to = reqs[i].email => m.link[2] = users[u].verificationToken
              /\ LET name == users[u].name
                 IN /\ Len(name) <= Len(reqs[i].email)
                    /\ SubSeq(reqs[i].email, 1, Len(name)) = name
                    /\ Len(name) < Len(reqs[i].email)
                         => reqs[i].email[Len(name) + 1] = "@"
                    /\ \A k \in 1..Len(name) : name[k] # "@"
              /\ users[u].password # reqs[i].password
              /\ users[u].password # NoPassword
              /\ BcryptCompare(reqs[i].password, users[u].password)

\* C12 witness: registrations of two different e-mails, through the REST route
\* and through the tRPC procedure, have both ended in success.
C12_Witness ==
  \E i, j \in ReqIds :
    /\ RegisterSucceeded(reqs[i]) /\ reqs[i].kind = "registerRest"
    /\ RegisterSucceeded(reqs[j]) /\ reqs[j].kind = "registerTrpc"
    /\ reqs[i].email # reqs[j].email

\* C13: a step changes the set of sessions only by adding one session, and
\* only as the last step of a sign-in: no step of a register request adds a
\* session, and when a password login adds one, the record of its user had
\* emailVerified set in the state the login was accepted in.
C13_SessionOnlyAfterVerifiedLogin ==
  [][ sessions' # sessions =>
        \/ \E i \in ReqIds :
             /\ reqs[i].kind = "login"
             /\ reqs[i].pc = "signIn"
             /\ reqs'[i].pc = "done"
             /\ \A k \in ReqIds \ {i} : reqs'[k] = reqs[k]
             /\ Len(reqs') = Len(reqs)
             /\ users[reqs[i].user[1].id].emailVerified # NULL
             /\ users[reqs[i].user[1].id].email = reqs[i].email
             /\ sessions' = sessions \cup {JwtClaims(users[reqs[i].user[1].id], now)}
        \/ /\ Len(reqs') = Len(reqs) + 1
           /\ reqs'[Len(reqs')].kind = "federated" ]_vars

\* C13 witness: a register request has ended in success, a password login for
\* its e-mail has ended logged in, and a session for that user exists.
C13_Witness ==
  \E i, j \in ReqIds :
    /\ RegisterSucceeded(reqs[i])
    /\ reqs[j].kind = "login" /\ reqs[j].pc = "done" /\ reqs[j].out.status = "ok"
    /\ reqs[j].email = reqs[i].email
    /\ \E s \in sessions : s.id = reqs[j].user[1].id

\* A register request whose record was created and whose verification mail the
\* transport rejected.
RegisterSendFailed(r) ==
  /\ IsRegister(r)
  /\ r.pc = "done"
  /\ r.token # NULL
  /\ VerificationMail(r.email, r.token) \notin mail

\* C14: the step in which the mail transport rejects the verification mail of
\* a register request leaves every user record unchanged, and the record the
\* request created is still there as written: same e-mail, unverified, holding
\* the request's token and the hash of its password.
C14_SendFailureKeepsRecord ==
  [][ \A i \in ReqIds :
        ( /\ IsRegister(reqs[i])
          /\ reqs[i].pc = "sendMail"
          /\ RegisterSendFailed(reqs'[i]) )
        => /\ users' = users
           /\ \E u \in 1..Len(users') :
                /\ users'[u].email = reqs[i].email
                /\ users'[u].emailVerified = NULL
                /\ users'[u].verificationToken = reqs[i].token
                /\ BcryptCompare(reqs[i].password, users'[u].password) ]_vars

\* C14 witness: the transport rejected the mail of a finished register request
\* and the record that request created is in the store.
C14_Witness ==
  \E i \in ReqIds :
    /\ RegisterSendFailed(reqs[i])
    /\ \E u \in UserIds : users[u].verificationToken = reqs[i].token

\* C15: a register request whose record was created and whose verification
\* mail the transport rejected reports success to its caller (201 on the REST
\* route, a result on the tRPC procedure) with a message other than the plain
\* success message, i.e. a success that carries a warning.
C15_SendFailureReportedAsWarning ==
  \A i \in ReqIds :
    RegisterSendFailed(reqs[i]) =>
      /\ reqs[i].out.status = RegisterSuccessOut(reqs[i].kind).status
      /\ reqs[i].out.msg # RegisterSuccessOut(reqs[i].kind).msg

\* C16: no line of the server console carries a password: every user object
\* dumped with a log line has no password field value (neither a stored hash
\* nor a plaintext submitted by a request).
C16_NoPasswordLogged ==
  \A l \in logs :
    \A k \in 1..Len(l.user) :
      /\ l.user[k].password = NoPassword
      /\ \A u \in UserIds : users[u].password # NoPassword
                              => l.user[k].password # users[u].password
      /\ \A i \in ReqIds : reqs[i].password # <<>>
                              => l.user[k].password # reqs[i].password

\* The requests that asked for their session and got an identity.
Identified == {i \in ReqIds : reqs[i].session # <<>> /\ reqs[i].session[1].user # <<>>}

\* C17: every token issued at a sign-in carries the user's id, name and e-mail
\* (as stored) and has no password or verification-token claim, and every
\* identity derived from a token on a later request consists of exactly id,
\* name and email; no text field of either is a stored password hash.
C17_ClaimsWithoutSecrets ==
  /\ \A s \in sessions :
       /\ {"id", "name", "email"} \subseteq DOMAIN s
       /\ DOMAIN s \cap {"password", "verificationToken"} = {}
       /\ s.id \in UserIds
       /\ s.name = users[s.id].name
       /\ s.email = users[s.id].email
       /\ \A u \in UserIds : users[u].password # NoPassword
                               => s.name # users[u].password /\ s.email # users[u].password
  /\ \A i \in Identified :
       LET identity == reqs[i].session[1].user[1]
       IN /\ DOMAIN identity = {"id", "name", "email"}
          /\ identity.name = reqs[i].claims[1].name
          /\ identity.email = reqs[i].claims[1].email

\* C17 witness: a password login ended logged in and a later request derived
\* an identity from the token issued to that user.
C17_Witness ==
  \E j \in ReqIds, i \in Identified :
    /\ reqs[j].kind = "login" /\ reqs[j].pc = "done" /\ reqs[j].out.status = "ok"
    /\ j < i
    /\ reqs[i].claims[1].id = reqs[j].user[1].id
    /\ users[reqs[j].user[1].id].password # NoPassword

\* C18: every issued token carries the id of the record it was issued for,
\* and every identity derived from a token on a later request has the id the
\* token carries: the jwt callback, called without a user object, left it
\* unchanged.
C18_IdentityIdIsSubject ==
  /\ \A s \in sessions :
       /\ s.id \in UserIds
       /\ users[s.id].id = s.id
       /\ users[s.id].email = s.email
  /\ \A i \in Identified :
       /\ reqs[i].claims[1] \in sessions
       /\ reqs[i].session[1].user[1].id = reqs[i].claims[1].id
       /\ JwtCallback(reqs[i].claims[1], <<>>) = reqs[i].claims[1]

\* C18 witness: a session request derived an identity from an issued token
\* through a jwt callback that ran without a user object (its console line
\* shows none), and the identity's id is that of the token's user.
C18_Witness ==
  \E i \in Identified :
    /\ reqs[i].kind = "session"
    /\ JwtCallbackLog(reqs[i].claims[1], <<>>) \in logs
    /\ reqs[i].session[1].user[1].id = reqs[i].claims[1].id
    /\ users[reqs[i].claims[1].id].email = reqs[i].claims[1].email

\* C19: a request that presents a token more than 30 days after its issuance
\* gets no session: it is answered unauthenticated (a protected procedure:
\* UNAUTHORIZED, handler not run) and no identity is derived.
C19_ExpiredTokenUnauthenticated ==
  [][ ( /\ Len(reqs') = Len(reqs) + 1
        /\ reqs'[Len(reqs')].kind \in {"session", "protected"}
        /\ reqs'[Len(reqs')].claims # <<>>
        /\ (now - reqs'[Len(reqs')].claims[1].iat) * SecondsPerTick
             > 30 * 24 * 60 * 60 )
      => /\ Len(reqs') \notin {i \in 1..Len(reqs') :
                                 /\ reqs'[i].session # <<>>
                                 /\ reqs'[i].session[1].user # <<>>}
         /\ reqs'[Len(reqs')].out.status \in {"unauthenticated", "UNAUTHORIZED"}
         /\ ~reqs'[Len(reqs')].handled
         /\ logs' = logs ]_vars

\* C19 witness: a token was presented to the session request and yielded no
\* session, and the same token had yielded an identity on an earlier request.
C19_Witness ==
  \E i \in Identified, j \in ReqIds :
    /\ i < j
    /\ reqs[j].kind = "session"
    /\ reqs[j].claims = reqs[i].claims
    /\ reqs[j].session = <<>>

\* C20: a call of a protected procedure ran its handler exactly when its
\* context carried a session with a user, and was rejected with UNAUTHORIZED
\* otherwise (no session, or a session without user).
C20_HandlerOnlyWithUser ==
  \A i \in ReqIds :
    reqs[i].kind = "protected" =>
      /\ reqs[i].handled <=> i \in Identified
      /\ reqs[i].handled => reqs[i].out.status = "OK"
      /\ ~reqs[i].handled => reqs[i].out.status = "UNAUTHORIZED"

\* C20 witness: three calls of a protected procedure, one with a live session
\* (handler run), one without session and one with a session without user
\* (both rejected).
C20_Witness ==
  \E i, j, k \in ReqIds :
    /\ reqs[i].kind = "protected" /\ reqs[i].handled
    /\ reqs[j].kind = "protected" /\ reqs[j].session = <<>>
    /\ reqs[k].kind = "protected" /\ reqs[k].session # <<>>
    /\ reqs[k].session[1].user = <<>>
    /\ reqs[j].out.status = "UNAUTHORIZED" /\ reqs[k].out.status = "UNAUTHORIZED"

CallIds == 1..Len(calls)

\* C21: every finished call of a procedure went through the timing middleware
\* with exactly one call of the next stage, in development and outside it,
\* and the caller got what the next stage produced, value or error, unchanged.
C21_TimingForwardsUnchanged ==
  \A i \in CallIds :
    calls[i].pc = "done" =>
      /\ calls[i].nextCalls = 1
      /\ calls[i].out = calls[i].downstream
      /\ calls[i].out # Err("pending")

\* C21 witness: finished calls on a development server and on a production
\* server, one of which got a value and one an error from the handler.
C21_Witness ==
  \E i, j \in CallIds :
    /\ calls[i].pc = "done" /\ calls[i].isDev /\ ~calls[i].out.ok
    /\ calls[j].pc = "done" /\ ~calls[j].isDev /\ calls[j].out.ok
    /\ calls[i].out.error = "Task not found"

\* C22: a POST /api/register whose e-mail is not a syntactically valid address,
\* or whose password is missing or shorter than the minimum, was answered 400
\* at once, created no record (it never drew a token) and no mail went to its
\* address.
C22_InvalidRegisterAnswered400 ==
  \A i \in ReqIds :
    ( /\ reqs[i].kind = "registerRest"
      /\ \/ ~ZodEmail(reqs[i].email)
         \/ Len(reqs[i].password) < MinPasswordLen )
    => /\ reqs[i].pc = "done"
       /\ reqs[i].out.status = "400"
       /\ reqs[i].token = NULL
       /\ \A m \in mail : m.to # reqs[i].email

TaskCallDone(c, kind) == c.kind = kind /\ c.pc = "done" /\ c.out.ok

\* C25: a step that completes task.create with a non-empty title adds exactly
\* one row, with that title and completed = false, and leaves the rest; a
\* step that completes task.toggle changes at most the completed flag of the
\* named row and nothing else, and flips that flag when the row is still as
\* the call read it; a step that completes task.delete removes
\* exactly the named row; task.getAll returns exactly the rows of the store
\* (so a created row is returned and a deleted one is not) and changes nothing.
C25_TaskCrud ==
  [][ \A i \in 1..Len(calls') :
        ( /\ calls'[i].pc = "done" /\ calls'[i].out.ok
          /\ i > Len(calls) \/ calls[i].pc # "done" )
        => LET c == calls'[i]
               row == c.out.data[1]
           IN /\ c.kind = "create" =>
                   /\ Len(c.title) >= 1
                   /\ row \notin tasks
                   /\ \A r \in tasks : r.id # row.id
                   /\ row.title = c.title /\ row.completed = FALSE
                   /\ tasks' = tasks \cup {row}
              /\ c.kind = "toggle" =>
                   \E old \in tasks :
                     /\ old.id = c.id
                     /\ row = [old EXCEPT !.completed = row.completed]
                     /\ calls[i].read = <<old>> => row.completed = ~old.completed
                     /\ tasks' = (tasks \ {old}) \cup {row}
              /\ c.kind = "delete" =>
                   /\ row \in tasks /\ row.id = c.id
                   /\ tasks' = tasks \ {row}
              /\ c.kind = "getAll" =>
                   /\ {c.out.data[k] : k \in 1..Len(c.out.data)} = tasks
                   /\ Len(c.out.data) = Cardinality(tasks)
                   /\ tasks' = tasks ]_vars

\* C25 witness: a task was created, toggled and deleted by finished calls
\* while another task stayed, and a finished getAll returned only the other.
C25_Witness ==
  \E i, j, k, l \in CallIds :
    /\ TaskCallDone(calls[i], "create")
    /\ TaskCallDone(calls[j], "toggle") /\ calls[j].id = calls[i].out.data[1].id
    /\ TaskCallDone(calls[k], "delete") /\ calls[k].id = calls[i].out.data[1].id
    /\ i < j /\ j < k /\ k < l
    /\ TaskCallDone(calls[l], "getAll")
    /\ \A n \in 1..Len(calls[l].out.data) : calls[l].out.data[n].id # calls[k].id

\* C26: a password login for a stored, unverified account that has a password
\* hash ends with "Please verify your email before logging in." whether the
\* submitted password matches the hash or not, and the password comparison
\* is not performed for it.
C26_UnverifiedBeforeCompare ==
  \A i \in ReqIds :
    ( /\ reqs[i].kind = "login"
      /\ reqs[i].pc # "authorize"
      /\ reqs[i].user # <<>>
      /\ reqs[i].user[1].password # NoPassword
      /\ reqs[i].user[1].emailVerified = NULL )
    => /\ reqs[i].error = "Please verify your email before logging in."
       /\ ~reqs[i].compared
       /\ reqs[i].session = <<>>

\* C26 witness: two finished logins for the same unverified account, one with
\* the registered password and one with another, both answered alike.
C26_Witness ==
  \E i, j \in ReqIds :
    /\ reqs[i].kind = "login" /\ reqs[j].kind = "login"
    /\ reqs[i].pc = "done" /\ reqs[j].pc = "done"
    /\ reqs[i].user # <<>> /\ reqs[j].user = reqs[i].user
    /\ reqs[i].user[1].emailVerified = NULL
    /\ BcryptCompare(reqs[i].password, reqs[i].user[1].password)
    /\ ~BcryptCompare(reqs[j].password, reqs[j].user[1].password)
    /\ reqs[i].error = "Please verify your email before logging in."
    /\ reqs[j].error = reqs[i].error

\* C27: every step that answers a POST to /api/auth/check-email leaves the
\* store as it was and answers with emailVerified only if exists; for a
\* syntactically valid e-mail the answer is 200 with exists true exactly when
\* a row with that e-mail is stored and emailVerified true exactly when that
\* row is verified; for any other body both flags are false.
C27_CheckEmailAnswers ==
  [][ ( /\ Len(reqs') = Len(reqs) + 1
        /\ reqs'[Len(reqs')].kind = "checkEmail" )
      => LET r == reqs'[Len(reqs')]
             stored == {k \in UserIds : users[k].email = r.email}
         IN /\ users' = users /\ mail' = mail /\ sessions' = sessions
            /\ nextToken' = nextToken /\ tasks' = tasks
            /\ r.out.emailVerified => r.out.exists
            /\ ZodEmail(r.email) =>
                 /\ r.out.status = "200"
                 /\ r.out.exists <=> stored # {}
                 /\ r.out.emailVerified <=>
                      \E k \in stored : users[k].emailVerified # NULL
            /\ ~ZodEmail(r.email) =>
                 ~r.out.exists /\ ~r.out.emailVerified ]_vars

\* C27 witness: check-email answered about the same stored address twice,
\* first exists without emailVerified and, after the verification, both.
C27_Witness ==
  \E i, j \in ReqIds :
    /\ i < j
    /\ reqs[i].kind = "checkEmail" /\ reqs[j].kind = "checkEmail"
    /\ reqs[i].email = reqs[j].email
    /\ reqs[i].out.status = "200" /\ reqs[j].out.status = "200"
    /\ reqs[i].out.exists /\ ~reqs[i].out.emailVerified
    /\ reqs[j].out.exists /\ reqs[j].out.emailVerified
    /\ \E u \in UserIds : /\ users[u].email = reqs[j].email
                          /\ users[u].emailVerified # NULL

\* C28: for every stored task that no toggle call is in the middle of, the
\* completed flag is its initial value (false) flipped once per completed
\* task.toggle call on it: true exactly when their number is odd.
C28_NoToggleLost ==
  \A row \in tasks :
    LET toggles == {i \in CallIds : calls[i].kind = "toggle" /\ calls[i].id = row.id}
        completedToggles == {i \in toggles : calls[i].pc = "done" /\ calls[i].out.ok}
    IN (\A i \in toggles : calls[i].pc = "done")
       => (row.completed <=> Cardinality(completedToggles) % 2 = 1)

\* The e-mails of the registrations that created a row and whose verification
\* mail the transport then refused.
SendFailedEmails == {reqs[i].email : i \in {j \in ReqIds : RegisterSendFailed(reqs[j])}}

\* C29 as stated: every register request that arrives after a registration
\* whose verification mail failed, for the same e-mail, is answered "Email
\* already in use", and the step issues no token, sends no mail and writes no
\* row.
C29_EveryRetryConflicts ==
  [][ ( /\ Len(reqs') = Len(reqs) + 1
        /\ IsRegister(reqs'[Len(reqs')])
        /\ reqs'[Len(reqs')].email \in SendFailedEmails )
      => /\ reqs'[Len(reqs')].pc = "done"
         /\ reqs'[Len(reqs')].out.msg = "Email already in use"
         /\ reqs'[Len(reqs')].token = NULL
         /\ nextToken' = nextToken /\ mail' = mail /\ users' = users ]_vars

\* C29 amended: every register request whose input passes the route's
\* validation and that arrives after a registration whose verification mail
\* failed, for the same e-mail, is answered "Email already in use"; no register
\* request arriving then, valid or not, gets a token issued, a mail sent or a
\* row written, and the unverified row of the failed registration stays.
C29_ValidRetryConflicts ==
  [][ ( /\ Len(reqs') = Len(reqs) + 1
        /\ IsRegister(reqs'[Len(reqs')])
        /\ reqs'[Len(reqs')].email \in SendFailedEmails )
      => LET r == reqs'[Len(reqs')]
         IN /\ r.pc = "done"
            /\ r.token = NULL
            /\ nextToken' = nextToken /\ mail' = mail /\ users' = users
            /\ \E k \in UserIds : users[k].email = r.email /\ users[k].emailVerified = NULL
            /\ IF RegisterInputInvalid(r.kind, r.email, r.password)
               THEN r.out = RegisterInvalidOut(r.kind)
               ELSE r.out = RegisterConflictOut(r.kind) /\ r.out.msg = "Email already in use" ]_vars

\* C29 witness: after a registration whose mail failed, a valid request of
\* each route for the same e-mail was answered "Email already in use".
C29_Witness ==
  \E i, j, k \in ReqIds :
    /\ RegisterSendFailed(reqs[i])
    /\ i < j /\ i < k
    /\ reqs[j].kind = "registerRest" /\ reqs[k].kind = "registerTrpc"
    /\ reqs[j].email = reqs[i].email /\ reqs[k].email = reqs[i].email
    /\ RegisterConflicted(reqs[j]) /\ RegisterConflicted(reqs[k])
    /\ reqs[j].user # <<>> /\ reqs[j].user[1].emailVerified = NULL
    /\ Cardinality({m \in UserIds : users[m].email = reqs[i].email}) = 1

\* C30: every finished call of task.getAll, task.create, task.toggle and
\* task.delete passed the procedure's gate whether or not it carried a
\* session and was never answered UNAUTHORIZED; without a session getAll and
\* a create with a non-empty title succeed, and toggle and delete fail only
\* for a row that does not exist; no task row names an owner.
C30_TaskRouterOpen ==
  /\ \A i \in CallIds :
       calls[i].pc = "done" =>
         /\ calls[i].gate
         /\ calls[i].out.error # "UNAUTHORIZED"
         /\ calls[i].session = <<>> =>
              /\ calls[i].kind = "getAll" => calls[i].out.ok
              /\ (calls[i].kind = "create" /\ Len(calls[i].title) >= 1) => calls[i].out.ok
              /\ calls[i].kind = "toggle" =>
                   calls[i].out.error \in {"", "Task not found", "Record to update not found"}
              /\ calls[i].kind = "delete" =>
                   calls[i].out.error \in {"", "Record to delete does not exist"}
  /\ \A row \in tasks : DOMAIN row = {"id", "title", "completed", "createdAt"}

\* C30 witness: a call without session created a task, a call without session
\* read it, a signed-in caller toggled it and a call without session deleted
\* it, all successfully.
C30_Witness ==
  \E i, j, k, l \in CallIds :
    /\ TaskCallDone(calls[i], "create") /\ calls[i].session = <<>>
    /\ TaskCallDone(calls[j], "getAll") /\ calls[j].session = <<>>
    /\ calls[j].out.data = calls[i].out.data
    /\ TaskCallDone(calls[k], "toggle") /\ calls[k].session # <<>>
    /\ calls[k].id = calls[i].out.data[1].id
    /\ TaskCallDone(calls[l], "delete") /\ calls[l].session = <<>>
    /\ calls[l].id = calls[i].out.data[1].id
    /\ tasks = {}

====
